---- MODULE Spec2Model ----
(***************************************************************************)
(* State-machine model of src/src/wsio.c: the websocket IO adapter         *)
(* (wsio_create/open/close/send/dowork/destroy and the libwebsockets       *)
(* callback on_ws_callback).                                               *)
(*                                                                         *)
(* One action is one call of the public API.  wsio_dowork pumps the engine *)
(* (lws_service), which dispatches at most one event to on_ws_callback per *)
(* call in this model.  Results of the external calls (allocator, engine)  *)
(* are inputs chosen with \E.  Variables op/ret/calls observe the last     *)
(* call: its arguments, its return value and the callbacks and engine      *)
(* calls it made, in order.                                                *)
(***************************************************************************)
EXTENDS Integers, Sequences, FiniteSets, TLC

VARIABLES
    alive,                  \* the WSIO_INSTANCE exists (created, not yet destroyed)
    io_state,               \* WSIO_INSTANCE.io_state
    pending_io_list,        \* WSIO_INSTANCE.pending_io_list, head first
    ws_context,             \* WSIO_INSTANCE.ws_context (0 is NULL)
    wsi,                    \* WSIO_INSTANCE.wsi (0 is NULL)
    on_bytes_received,      \* registered callbacks: "NULL" or "cb"
    on_io_open_complete,
    on_io_error,
    open_callback_context,  \* 0 is NULL
    sessions,               \* engine: the live lws contexts
    created,                \* engine: number of contexts created so far
    writable_requested,     \* engine: a writable notification is outstanding
    op,                     \* the last call and its arguments
    ret,                    \* its return value (0 or NonZero; 0 for a void function)
    calls,                  \* callbacks and engine calls it made, in order
    completions,            \* callback_context of every on_send_complete call so far, in order
    send_calls,             \* number of wsio_send calls that queued a buffer
    crashed,                \* the process died (NULL function pointer called, double free)
    drain_round             \* parity of the writable events delivered by DrainWritable

inst == <<alive, io_state, pending_io_list, ws_context, wsi, on_bytes_received,
          on_io_open_complete, on_io_error, open_callback_context>>
engine == <<sessions, created, writable_requested>>
obs == <<op, ret, calls, completions, send_calls, crashed, drain_round>>
vars == <<inst, engine, obs>>

\* ---------------------------------------------------------------- bounds
MaxSize == 2        \* largest buffer handed to wsio_send
MaxSends == 2       \* wsio_send calls that queue a buffer
MaxOpens == 2       \* engine contexts created

\* lws_write is explored while the bytes it accepted for one pending IO, over
\* all rounds, stay within this; the count kept in the model stops there
MaxAccepted == MaxSize + 1
Saturate(n) == IF n > MaxAccepted THEN MaxAccepted ELSE n

NonZero == 1        \* stands for every __LINE__ result

\* the buffer of a wsio_send call: byte i of the buffer has value i
Buffer(size) == [i \in 1..size |-> i]

\* ------------------------------------------------- observed calls (trace)
Call(kind, ctx, result, bytes, n) ==
    [k |-> kind, ctx |-> ctx, r |-> result, b |-> bytes, n |-> n]
SendComplete(ctx, result) == Call("on_send_complete", ctx, result, <<>>, 0)
OpenComplete(ctx, result) == Call("on_io_open_complete", ctx, result, <<>>, 0)
ErrorCall(ctx) == Call("on_io_error", ctx, "", <<>>, 0)
CloseComplete(ctx) == Call("on_io_close_complete", ctx, "", <<>>, 0)
BytesReceived(ctx) == Call("on_bytes_received", ctx, "", <<>>, 0)
\* lws_write(wsi, bytes, len) for the pending IO ctx, which returned n
LwsWrite(ctx, bytes, n) == Call("lws_write", ctx, "", bytes, n)
LwsOnWritable(n) == Call("lws_callback_on_writable", 0, "", <<>>, n)
\* lws_create_context and lws_client_connect, which returned id (0 is NULL)
LwsCreateContext(id) == Call("lws_create_context", id, "", <<>>, 0)
LwsClientConnect(id) == Call("lws_client_connect", id, "", <<>>, 0)
LwsContextDestroy(id) == Call("lws_context_destroy", id, "", <<>>, 0)

\* the calls of one kind among the calls s, in order
SelectKind(s, kind) == SelectSeq(s, LAMBDA c : c.k = kind)

\* the callback_context of each on_send_complete call among the calls s
SendCompletions(s) ==
    LET sc == SelectKind(s, "on_send_complete")
    IN  [i \in 1..Len(sc) |-> sc[i].ctx]

Snapshot == [io_state |-> io_state, pending_io_list |-> pending_io_list,
             ws_context |-> ws_context, wsi |-> wsi,
             on_bytes_received |-> on_bytes_received,
             on_io_open_complete |-> on_io_open_complete,
             on_io_error |-> on_io_error,
             open_callback_context |-> open_callback_context,
             sessions |-> sessions, writable_requested |-> writable_requested,
             alive |-> alive]

\* -------------------------------------------------------------- helpers
\* indicate_error: on_io_error is optional
indicate_error(cb, ctx) == IF cb # "NULL" THEN <<ErrorCall(ctx)>> ELSE <<>>

indicate_open_complete_silent(cb, ctx, open_result) == <<>>

\* indicate_open_complete: on_io_open_complete is optional
indicate_open_complete(cb, ctx, open_result) ==
    IF cb # "NULL" THEN <<OpenComplete(ctx, open_result)>> ELSE <<>>

\* the on_send_complete call of one pending IO (optional callback)
send_complete(io, send_result) ==
    IF io.on_send_complete # "NULL"
    THEN <<SendComplete(io.callback_context, send_result)>> ELSE <<>>

\* list_add appends at the tail; list_remove removes the item with the given
\* handle and fails when the list does not hold it
list_add(list, io) == Append(list, io)
list_has(list, item) == \E i \in 1..Len(list) : list[i].callback_context = item
list_remove(list, item) == SelectSeq(list, LAMBDA io : io.callback_context # item)
list_remove_result(list, item) == IF list_has(list, item) THEN 0 ELSE NonZero

\* a PENDING_SOCKET_IO as add_pending_io fills it; accepted counts the bytes
\* lws_write has accepted for it so far (not a field of the code)
PendingIO(size, cb, ctx) ==
    [bytes |-> Buffer(size), size |-> size, on_send_complete |-> cb,
     callback_context |-> ctx, is_partially_sent |-> FALSE, accepted |-> 0]

add_pending_io_front(list, io, alloc_ok) ==
    IF alloc_ok THEN <<io>> \o list ELSE list

\* add_pending_io: the new PENDING_SOCKET_IO is queued at the tail, or nothing
\* is queued when an allocation or list_add fails
add_pending_io(list, io, alloc_ok) ==
    IF alloc_ok THEN list_add(list, io) ELSE list

\* ----------------------------------------------------------------- Init
\* a call: the function, its handle, the completion callback passed to it and,
\* for wsio_send, the buffer and size; for wsio_dowork, event is the event the
\* engine dispatched during it
Args(name, h, cb, buffer, size) ==
    [name |-> name, handle |-> h, cb |-> cb, buffer |-> buffer, size |-> size,
     event |-> ""]

Init ==
    /\ alive = TRUE
    /\ io_state = "NOT_OPEN"
    /\ pending_io_list = <<>>
    /\ ws_context = 0
    /\ wsi = 0
    /\ on_bytes_received = "NULL"
    /\ on_io_open_complete = "NULL"
    /\ on_io_error = "NULL"
    /\ open_callback_context = 0
    /\ sessions = {}
    /\ created = 0
    /\ writable_requested = FALSE
    /\ op = Args("wsio_create", "ws_io", "NULL", "", 0)
    /\ ret = 0
    /\ calls = <<>>
    /\ completions = <<>>
    /\ send_calls = 0
    /\ crashed = FALSE
    /\ drain_round = 0

Running == alive /\ ~crashed

\* the instance and engine fields take the values of the record s
Apply(s) ==
    /\ alive' = s.alive
    /\ io_state' = s.io_state
    /\ pending_io_list' = s.pending_io_list
    /\ ws_context' = s.ws_context
    /\ wsi' = s.wsi
    /\ on_bytes_received' = s.on_bytes_received
    /\ on_io_open_complete' = s.on_io_open_complete
    /\ on_io_error' = s.on_io_error
    /\ open_callback_context' = s.open_callback_context
    /\ sessions' = s.sessions
    /\ writable_requested' = s.writable_requested

\* what a call leaves behind: its arguments o, return value r, the calls c it
\* made and the instance s it leaves
Observe(o, r, c, s) ==
    /\ op' = o
    /\ ret' = r
    /\ calls' = c
    /\ completions' = completions \o SendCompletions(c)
    /\ Apply(s)

Finish(o, r, c, s) ==
    /\ Observe(o, r, c, s)
    /\ UNCHANGED drain_round

\* a call that only returns a value
Returns(o, r) ==
    /\ Finish(o, r, <<>>, Snapshot)
    /\ UNCHANGED <<created, send_calls, crashed>>

\* ------------------------------------------------------------ wsio_open
wsio_open_allowed_unless_busy(state) == state \notin {"OPENING", "OPEN"}
wsio_open_allowed_unless_open(state) == state # "OPEN"

\* wsio_open goes on only from IO_STATE_NOT_OPEN
wsio_open_allowed(state) == state = "NOT_OPEN"

\* the arguments of the wsio_open calls explored
OpenInputs ==
    {[handle |-> "NULL", on_io_open_complete |-> "cb1", on_bytes_received |-> "cb1",
      on_io_error |-> "cb1", callback_context |-> 1],
     [handle |-> "ws_io", on_io_open_complete |-> "cb1", on_bytes_received |-> "cb1",
      on_io_error |-> "cb1", callback_context |-> 1],
     [handle |-> "ws_io", on_io_open_complete |-> "NULL", on_bytes_received |-> "cb2",
      on_io_error |-> "NULL", callback_context |-> 2]}

wsio_open_without_rollback(a, engine_result) ==
    LET o == Args("wsio_open", a.handle, a.on_io_open_complete, "", 0)
        registered == [Snapshot EXCEPT !.on_bytes_received = a.on_bytes_received,
                                       !.on_io_open_complete = a.on_io_open_complete,
                                       !.on_io_error = a.on_io_error,
                                       !.open_callback_context = a.callback_context]
        id == created + 1
    IN  IF a.handle = "NULL" \/ ~wsio_open_allowed(io_state)
        THEN engine_result = "ok" /\ Returns(o, NonZero)
        ELSE IF engine_result = "create_fails"
        THEN /\ Finish(o, NonZero, <<LwsCreateContext(0)>>,
                       [registered EXCEPT !.ws_context = 0])
             /\ UNCHANGED <<created, send_calls, crashed>>
        ELSE /\ created < MaxOpens
             /\ Finish(o, IF engine_result = "ok" THEN 0 ELSE NonZero,
                       <<LwsCreateContext(id),
                         LwsClientConnect(IF engine_result = "ok" THEN id ELSE 0)>>,
                       [registered EXCEPT !.ws_context = id,
                                          !.wsi = IF engine_result = "ok" THEN id ELSE 0,
                                          !.io_state = "OPENING",
                                          !.sessions = @ \cup {id},
                                          !.writable_requested = FALSE])
             /\ created' = id
             /\ UNCHANGED <<send_calls, crashed>>

\* engine: "ok", or lws_create_context or lws_client_connect returns NULL
wsio_open(a, engine_result) ==
    LET o == Args("wsio_open", a.handle, a.on_io_open_complete, "", 0)
        registered == [Snapshot EXCEPT !.on_bytes_received = a.on_bytes_received,
                                       !.on_io_open_complete = a.on_io_open_complete,
                                       !.on_io_error = a.on_io_error,
                                       !.open_callback_context = a.callback_context]
        id == created + 1
    IN  IF a.handle = "NULL" \/ ~wsio_open_allowed(io_state)
        THEN engine_result = "ok" /\ Returns(o, NonZero)
        ELSE IF engine_result = "create_fails"
        THEN /\ Finish(o, NonZero, <<LwsCreateContext(0)>>,
                       [registered EXCEPT !.ws_context = 0])
             /\ UNCHANGED <<created, send_calls, crashed>>
        ELSE IF engine_result = "connect_fails"
        THEN /\ created < MaxOpens
             /\ Finish(o, NonZero,
                       <<LwsCreateContext(id), LwsClientConnect(0), LwsContextDestroy(id)>>,
                       [registered EXCEPT !.ws_context = id, !.wsi = 0,
                                          !.io_state = "NOT_OPEN"])
             /\ created' = id
             /\ UNCHANGED <<send_calls, crashed>>
        ELSE /\ created < MaxOpens
             /\ Finish(o, 0, <<LwsCreateContext(id), LwsClientConnect(id)>>,
                       [registered EXCEPT !.ws_context = id, !.wsi = id,
                                          !.io_state = "OPENING",
                                          !.sessions = @ \cup {id},
                                          !.writable_requested = FALSE])
             /\ created' = id
             /\ UNCHANGED <<send_calls, crashed>>

Open ==
    /\ Running
    /\ \E a \in OpenInputs, engine_result \in {"ok", "create_fails", "connect_fails"} :
          wsio_open(a, engine_result)

\* ----------------------------------------------------------- wsio_close
wsio_close_allowed_always(state) == TRUE
wsio_close_allowed_unless_error(state) == state \in {"OPENING", "OPEN"}

\* wsio_close goes on from every state but IO_STATE_NOT_OPEN
wsio_close_allowed(state) == state # "NOT_OPEN"

RECURSIVE cancel_all_pending_reversed(_)
cancel_all_pending_reversed(list) ==
    IF list = <<>> THEN <<>>
    ELSE cancel_all_pending_reversed(Tail(list)) \o send_complete(Head(list), "CANCELLED")

\* the drain loop of wsio_close: head first, each pending IO gets
\* on_send_complete(IO_SEND_CANCELLED) when it has a callback
RECURSIVE cancel_all_pending(_)
cancel_all_pending(list) ==
    IF list = <<>> THEN <<>>
    ELSE send_complete(Head(list), "CANCELLED") \o cancel_all_pending(Tail(list))

wsio_close_completes_first(s, on_io_close_complete, callback_context) ==
    IF ~wsio_close_allowed(s.io_state)
    THEN [ret |-> NonZero, calls |-> <<>>, s |-> s, twice |-> FALSE]
    ELSE [ret |-> 0,
          calls |->
              (IF on_io_close_complete # "NULL"
               THEN <<CloseComplete(callback_context)>> ELSE <<>>)
              \o (IF s.io_state = "OPENING"
                  THEN indicate_open_complete(s.on_io_open_complete,
                                              s.open_callback_context, "CANCELLED")
                  ELSE cancel_all_pending(s.pending_io_list))
              \o <<LwsContextDestroy(s.ws_context)>>,
          s |-> [s EXCEPT !.io_state = "NOT_OPEN",
                          !.pending_io_list =
                              IF s.io_state = "OPENING" THEN @ ELSE <<>>,
                          !.sessions = @ \ {s.ws_context},
                          !.writable_requested = FALSE],
          twice |-> s.ws_context \notin s.sessions]

\* wsio_close on a non-NULL handle, from the instance s: the return value, the
\* calls made and the instance left.  twice: lws_context_destroy was called on
\* a context that was destroyed before (undefined behaviour)
wsio_close(s, on_io_close_complete, callback_context) ==
    IF ~wsio_close_allowed(s.io_state)
    THEN [ret |-> NonZero, calls |-> <<>>, s |-> s, twice |-> FALSE]
    ELSE [ret |-> 0,
          calls |->
              (IF s.io_state = "OPENING"
               THEN indicate_open_complete(s.on_io_open_complete,
                                           s.open_callback_context, "CANCELLED")
               ELSE cancel_all_pending(s.pending_io_list))
              \o <<LwsContextDestroy(s.ws_context)>>
              \o (IF on_io_close_complete # "NULL"
                  THEN <<CloseComplete(callback_context)>> ELSE <<>>),
          s |-> [s EXCEPT !.io_state = "NOT_OPEN",
                          !.pending_io_list =
                              IF s.io_state = "OPENING" THEN @ ELSE <<>>,
                          !.sessions = @ \ {s.ws_context},
                          !.writable_requested = FALSE],
          twice |-> s.ws_context \notin s.sessions]

\* the arguments of the wsio_close calls explored
CloseInputs ==
    {[handle |-> "NULL", on_io_close_complete |-> "cb1", callback_context |-> 1],
     [handle |-> "ws_io", on_io_close_complete |-> "cb1", callback_context |-> 1],
     [handle |-> "ws_io", on_io_close_complete |-> "NULL", callback_context |-> 0]}

\* a call that ran into undefined behaviour either goes on or ends the process
Survives(undefined) == IF undefined THEN BOOLEAN ELSE {TRUE}

Close ==
    /\ Running
    /\ \E a \in CloseInputs :
          LET o == Args("wsio_close", a.handle, a.on_io_close_complete, "", 0)
              c == wsio_close(Snapshot, a.on_io_close_complete, a.callback_context)
          IN  IF a.handle = "NULL" THEN Returns(o, NonZero)
              ELSE /\ Finish(o, c.ret, c.calls, c.s)
                   /\ \E ok \in Survives(c.twice) : crashed' = ~ok
                   /\ UNCHANGED <<created, send_calls>>

\* --------------------------------------------------------- wsio_destroy
\* wsio_destroy: wsio_close(ws_io, NULL, NULL), then everything is freed
Destroy ==
    /\ Running
    /\ \E h \in {"NULL", "ws_io"} :
          LET o == Args("wsio_destroy", h, "NULL", "", 0)
              c == wsio_close(Snapshot, "NULL", 0)
          IN  IF h = "NULL" THEN Returns(o, 0)
              ELSE /\ Finish(o, 0, c.calls, [c.s EXCEPT !.alive = FALSE])
                   /\ \E ok \in Survives(c.twice) : crashed' = ~ok
                   /\ UNCHANGED <<created, send_calls>>

\* ------------------------------------------------------------ wsio_send

\* wsio_send: ws_io and buffer are not NULL and size is not zero
wsio_send_args_ok(h, buffer, size) == h # "NULL" /\ buffer # "NULL" /\ size # 0

wsio_send_allowed_unless_closed(state) == state # "NOT_OPEN"

\* wsio_send queues only in IO_STATE_OPEN
wsio_send_allowed(state) == state = "OPEN"

\* the arguments of the wsio_send calls explored
SendInputs ==
    {[handle |-> "NULL", buffer |-> "buffer", size |-> 1, on_send_complete |-> "cb1"],
     [handle |-> "ws_io", buffer |-> "NULL", size |-> 1, on_send_complete |-> "cb1"],
     [handle |-> "ws_io", buffer |-> "buffer", size |-> 0, on_send_complete |-> "cb1"]}
    \cup {[handle |-> "ws_io", buffer |-> "buffer", size |-> n, on_send_complete |-> cb] :
            n \in {1, MaxSize}, cb \in {"NULL", "cb1"}}

wsio_send_rolls_back(a, result) ==
    LET ctx == send_calls + 1
        o == Args("wsio_send", a.handle, a.on_send_complete, a.buffer, a.size)
        queued == add_pending_io(pending_io_list,
                                 PendingIO(a.size, a.on_send_complete, ctx),
                                 result = "ok")
    IN  IF ~wsio_send_args_ok(a.handle, a.buffer, a.size) \/ ~wsio_send_allowed(io_state)
        THEN result = "ok" /\ Returns(o, NonZero)
        ELSE IF result = "alloc_fails"
        THEN /\ Finish(o, NonZero, <<>>, [Snapshot EXCEPT !.pending_io_list = queued])
             /\ UNCHANGED <<created, send_calls, crashed>>
        ELSE /\ send_calls < MaxSends
             /\ Finish(o, IF result = "ok" THEN 0 ELSE NonZero,
                       <<LwsOnWritable(IF result = "ok" THEN 0 ELSE -1)>>,
                       [Snapshot EXCEPT !.pending_io_list = queued,
                                        !.writable_requested = @ \/ result = "ok"])
             /\ send_calls' = ctx
             /\ UNCHANGED <<created, crashed>>

\* result: "ok", or add_pending_io fails, or lws_callback_on_writable fails.
\* The callback_context of the call is the number of the call.
wsio_send(a, result) ==
    LET ctx == send_calls + 1
        o == Args("wsio_send", a.handle, a.on_send_complete, a.buffer, a.size)
        queued == add_pending_io(pending_io_list,
                                 PendingIO(a.size, a.on_send_complete, ctx),
                                 result # "alloc_fails")
    IN  IF ~wsio_send_args_ok(a.handle, a.buffer, a.size) \/ ~wsio_send_allowed(io_state)
        THEN result = "ok" /\ Returns(o, NonZero)
        ELSE IF result = "alloc_fails"
        THEN /\ Finish(o, NonZero, <<>>, [Snapshot EXCEPT !.pending_io_list = queued])
             /\ UNCHANGED <<created, send_calls, crashed>>
        ELSE /\ send_calls < MaxSends
             /\ Finish(o, IF result = "ok" THEN 0 ELSE NonZero,
                       <<LwsOnWritable(IF result = "ok" THEN 0 ELSE -1)>>,
                       [Snapshot EXCEPT !.pending_io_list = queued,
                                        !.writable_requested = @ \/ result = "ok"])
             /\ send_calls' = ctx
             /\ UNCHANGED <<created, crashed>>

Send ==
    /\ Running
    /\ \E a \in SendInputs, result \in {"ok", "alloc_fails", "writable_fails"} :
          wsio_send(a, result)

\* ------------------------------------------- on_ws_callback (the events)
\* the memmove of a partial send: the bytes after the first n move to the
\* front of the buffer; the buffer keeps its length
memmove_pending(bytes, n, size) ==
    [i \in 1..size |-> IF i <= size - n THEN bytes[i + n] ELSE bytes[i]]

remove_pending_io_flags_error(s, item) ==
    [calls |-> indicate_error(s.on_io_error, s.open_callback_context),
     s |-> [s EXCEPT !.io_state = "ERROR",
                     !.pending_io_list = list_remove(@, item)]]

\* remove_pending_io (and the same steps after IO_SEND_OK): the pending IO is
\* freed, then removed from the list; a failing list_remove sets IO_STATE_ERROR
\* and indicates the error
remove_pending_io(s, item) ==
    IF list_remove_result(s.pending_io_list, item) # 0
    THEN [calls |-> indicate_error(s.on_io_error, s.open_callback_context),
          s |-> [s EXCEPT !.io_state = "ERROR"]]
    ELSE [calls |-> <<>>,
          s |-> [s EXCEPT !.pending_io_list = list_remove(@, item)]]

on_established_stays_opening(s) ==
    IF s.io_state = "OPENING"
    THEN [calls |-> indicate_open_complete(s.on_io_open_complete,
                                           s.open_callback_context, "OK"),
          s |-> s]
    ELSE [calls |-> indicate_error(s.on_io_error, s.open_callback_context), s |-> s]

on_established_any_state(s) ==
    [calls |-> indicate_open_complete(s.on_io_open_complete,
                                      s.open_callback_context, "OK"),
     s |-> [s EXCEPT !.io_state = "OPEN"]]

\* LWS_CALLBACK_CLIENT_ESTABLISHED
on_established(s) ==
    IF s.io_state = "OPENING"
    THEN [calls |-> indicate_open_complete(s.on_io_open_complete,
                                           s.open_callback_context, "OK"),
          s |-> [s EXCEPT !.io_state = "OPEN"]]
    ELSE [calls |-> indicate_error(s.on_io_error, s.open_callback_context), s |-> s]

on_connection_error_keeps_context(s) ==
    IF s.io_state = "OPENING"
    THEN [calls |-> indicate_open_complete(s.on_io_open_complete,
                                           s.open_callback_context, "ERROR"),
          s |-> [s EXCEPT !.io_state = "NOT_OPEN"]]
    ELSE [calls |-> indicate_error(s.on_io_error, s.open_callback_context), s |-> s]

\* LWS_CALLBACK_CLIENT_CONNECTION_ERROR
on_connection_error(s) ==
    IF s.io_state = "OPENING"
    THEN [calls |-> indicate_open_complete(s.on_io_open_complete,
                                           s.open_callback_context, "ERROR")
                    \o <<LwsContextDestroy(s.ws_context)>>,
          s |-> [s EXCEPT !.io_state = "NOT_OPEN",
                          !.sessions = @ \ {s.ws_context},
                          !.writable_requested = FALSE]]
    ELSE [calls |-> indicate_error(s.on_io_error, s.open_callback_context), s |-> s]

\* LWS_CALLBACK_CLIENT_CONNECTION_ERROR in IO_STATE_OPENING when the
\* on_io_open_complete callback calls wsio_close(ws_io, NULL, NULL) before it
\* returns: the callback runs with the state still IO_STATE_OPENING, and the
\* handler goes on with lws_context_destroy after it
on_connection_error_reentrant(s) ==
    LET cb == wsio_close(s, "NULL", 0)
    IN  [calls |-> indicate_open_complete(s.on_io_open_complete,
                                          s.open_callback_context, "ERROR")
                   \o cb.calls
                   \o <<LwsContextDestroy(cb.s.ws_context)>>,
         s |-> [cb.s EXCEPT !.io_state = "NOT_OPEN",
                            !.sessions = @ \ {cb.s.ws_context},
                            !.writable_requested = FALSE]]

\* the end of LWS_CALLBACK_CLIENT_WRITEABLE: with a pending IO left, the
\* writable notification is requested again and its result is ignored
request_writable_again(r, rereq_ok) ==
    IF r.s.pending_io_list # <<>>
    THEN [calls |-> r.calls \o <<LwsOnWritable(IF rereq_ok THEN 0 ELSE -1)>>,
          s |-> [r.s EXCEPT !.writable_requested = rereq_ok]]
    ELSE r

\* what the on_send_complete callback of the pending IO does before it
\* returns: nothing, or (reenter = "close") it calls wsio_close(ws_io, NULL, NULL)
callback_reenters(s, io, reenter) ==
    IF reenter = "close" /\ io.on_send_complete # "NULL"
    THEN wsio_close(s, "NULL", 0)
    ELSE [ret |-> 0, calls |-> <<>>, s |-> s, twice |-> FALSE]

\* LWS_CALLBACK_CLIENT_WRITEABLE, from the instance s.  malloc_ok: the padded
\* buffer was allocated; n: what lws_write returned; rereq_ok: the result of
\* the closing lws_callback_on_writable; reenter: what the completion
\* callback does; flag: what is read as is_partially_sent after the callback
\* (the field's value, unless the callback freed the pending IO).
\* The event uses up the notification.
on_writable(s, malloc_ok, n, rereq_ok, reenter, flag) ==
    LET s0 == [s EXCEPT !.writable_requested = FALSE]
    IN  IF s.pending_io_list = <<>> THEN [calls |-> <<>>, s |-> s0]
        ELSE
        LET io == Head(s.pending_io_list)
            written == IF malloc_ok
                       THEN <<LwsWrite(io.callback_context, io.bytes, n)>> ELSE <<>>
        IN  IF ~malloc_ok \/ n < 0
            THEN \* IO_SEND_ERROR
                 LET cb == callback_reenters(s0, io, reenter)
                     s1 == IF flag THEN [cb.s EXCEPT !.io_state = "ERROR"] ELSE cb.s
                     e1 == IF flag
                           THEN indicate_error(s.on_io_error, s.open_callback_context)
                           ELSE <<>>
                     rm == remove_pending_io(s1, io.callback_context)
                 IN  request_writable_again(
                         [calls |-> written \o send_complete(io, "ERROR") \o cb.calls
                                    \o e1 \o rm.calls,
                          s |-> rm.s], rereq_ok)
            ELSE IF n < io.size
            THEN \* make pending
                 request_writable_again(
                     [calls |-> written,
                      s |-> [s0 EXCEPT !.pending_io_list[1].bytes =
                                           memmove_pending(io.bytes, n, io.size),
                                       !.pending_io_list[1].accepted = Saturate(@ + n)]],
                     rereq_ok)
            ELSE \* IO_SEND_OK
                 LET cb == callback_reenters(s0, io, reenter)
                     rm == remove_pending_io(cb.s, io.callback_context)
                 IN  request_writable_again(
                         [calls |-> written \o send_complete(io, "OK") \o cb.calls
                                    \o rm.calls,
                          s |-> rm.s], rereq_ok)

\* ---------------------------------------------------------- wsio_dowork

wsio_dowork_pumps_unless_closed(state) == state # "NOT_OPEN"

\* wsio_dowork calls lws_service in IO_STATE_OPEN and IO_STATE_OPENING
wsio_dowork_pumps(state) == state \in {"OPEN", "OPENING"}

DoWorkArgs(h, event) == [Args("wsio_dowork", h, "NULL", "", 0) EXCEPT !.event = event]

\* wsio_dowork during which the engine dispatched the event, handled as r
Dispatch(event, r) ==
    /\ Running
    /\ wsio_dowork_pumps(io_state)
    /\ Finish(DoWorkArgs("ws_io", event), 0, r.calls, r.s)
    /\ UNCHANGED <<created, send_calls>>

\* wsio_dowork with nothing dispatched: NULL handle, state not pumped, or no event
DoWorkIdle ==
    /\ Running
    /\ \E h \in {"NULL", "ws_io"} : Returns(DoWorkArgs(h, "none"), 0)

DoWorkEstablished ==
    /\ Dispatch("established", on_established(Snapshot))
    /\ UNCHANGED crashed

DoWorkConnectionError ==
    /\ Dispatch("connection_error", on_connection_error(Snapshot))
    /\ UNCHANGED crashed

\* the results lws_write can have for the head of the list: -1, or the number
\* of bytes accepted, of the size handed to it
WriteResults(list) ==
    IF list = <<>> THEN {0}
    ELSE {n \in -1..Head(list).size :
             n <= 0 \/ n >= Head(list).size \/ Head(list).accepted + n <= MaxAccepted}

\* the writable event is dispatched when a notification is outstanding
DoWorkWritable ==
    /\ writable_requested
    /\ io_state = "OPEN"
    /\ \E malloc_ok \in BOOLEAN, rereq_ok \in BOOLEAN, n \in WriteResults(pending_io_list) :
          /\ malloc_ok \/ n = 0
          /\ Dispatch("writable",
                      on_writable(Snapshot, malloc_ok, n, rereq_ok, "none",
                                  pending_io_list # <<>>
                                  /\ Head(pending_io_list).is_partially_sent))
    /\ UNCHANGED crashed

\* the writable event whose completion callback calls wsio_close: when the
\* callback returns the pending IO has been freed, so the handler reads freed
\* memory and frees it again (undefined behaviour)
DoWorkWritableReentrant ==
    /\ writable_requested
    /\ io_state = "OPEN"
    /\ pending_io_list # <<>>
    /\ Head(pending_io_list).on_send_complete # "NULL"
    /\ \E malloc_ok \in BOOLEAN, n \in WriteResults(pending_io_list), flag \in BOOLEAN :
          /\ malloc_ok \/ n = 0
          /\ ~malloc_ok \/ n < 0 \/ n >= Head(pending_io_list).size
          /\ Dispatch("writable",
                      on_writable(Snapshot, malloc_ok, n, TRUE, "close", flag))
    /\ \E ok \in Survives(TRUE) : crashed' = ~ok

\* the connection error event whose on_io_open_complete callback calls
\* wsio_close: the handler then destroys the lws context that wsio_close has
\* destroyed (undefined behaviour)
DoWorkConnectionErrorReentrant ==
    /\ io_state = "OPENING"
    /\ on_io_open_complete # "NULL"
    /\ Dispatch("connection_error", on_connection_error_reentrant(Snapshot))
    /\ \E ok \in Survives(TRUE) : crashed' = ~ok

\* LWS_CALLBACK_CLIENT_RECEIVE: on_bytes_received is called unchecked
DoWorkReceive ==
    /\ io_state = "OPEN"
    /\ Dispatch("receive",
                [calls |-> IF on_bytes_received # "NULL"
                           THEN <<BytesReceived(open_callback_context)>> ELSE <<>>,
                 s |-> Snapshot])
    /\ crashed' = (on_bytes_received = "NULL")

Next ==
    \/ Open
    \/ Close
    \/ Destroy
    \/ Send
    \/ DoWorkIdle
    \/ DoWorkEstablished
    \/ DoWorkConnectionError
    \/ DoWorkWritable
    \/ DoWorkReceive

Spec == Init /\ [][Next]_vars

\* the same, with send and open completion callbacks that may call wsio_close
NextReentrant ==
    \/ Next
    \/ DoWorkWritableReentrant
    \/ DoWorkConnectionErrorReentrant

SpecReentrant == Init /\ [][NextReentrant]_vars

\* ------------------------------------------------------------- draining
\* wsio_send whose allocations and writable request succeed
DrainSend ==
    /\ Running
    /\ \E a \in SendInputs : wsio_send(a, "ok")

\* wsio_dowork in IO_STATE_OPEN with a well-behaved engine: the writable event
\* is delivered for the outstanding notification, the padded buffer is
\* allocated, lws_write accepts at least one byte of what it is handed and the
\* closing lws_callback_on_writable succeeds
DrainWritable ==
    /\ Running
    /\ writable_requested
    /\ io_state = "OPEN"
    /\ pending_io_list # <<>>
    /\ \E n \in 1..Head(pending_io_list).size :
          LET r == on_writable(Snapshot, TRUE, n, TRUE, "none",
                               Head(pending_io_list).is_partially_sent)
          IN  Observe(DoWorkArgs("ws_io", "writable"), 0, r.calls, r.s)
    /\ drain_round' = 1 - drain_round
    /\ UNCHANGED <<created, send_calls, crashed>>

\* a caller that opens, sends and then only calls wsio_dowork
NextDrain ==
    \/ Open
    \/ DoWorkEstablished
    \/ DrainSend
    \/ DrainWritable

\* wsio_dowork is called again and again, and the engine delivers the writable
\* event whenever a notification is outstanding
SpecDrain == Init /\ [][NextDrain]_vars /\ WF_vars(DrainWritable)

\* ================================================================ claims
\* the callbacks made to the caller among the calls c, in order
Callbacks(c) ==
    SelectSeq(c, LAMBDA x : x.k \in {"on_send_complete", "on_io_open_complete",
                                     "on_io_error", "on_io_close_complete",
                                     "on_bytes_received"})

\* the step is a call of the function name on the instance
Called(name) == op'.name = name /\ op'.handle = "ws_io"

\* the call left the instance and the engine as they were
Untouched == UNCHANGED <<inst, engine>>

\* C1: send-complete callbacks are delivered in the order of the wsio_send
\* calls, whatever their result, and no write gets more than one: the
\* callback_context values delivered (the numbers of the wsio_send calls) are
\* strictly increasing.
TheoremC1 ==
    \A i \in 1..Len(completions) : \A j \in 1..Len(completions) :
        i < j => completions[i] < completions[j]

\* two writes were completed, after both had been queued
WitnessC1 ==
    /\ completions = <<1, 2>>
    /\ op.name = "wsio_dowork"
    /\ Len(SelectKind(calls, "on_send_complete")) = 1
    /\ send_calls = 2

\* C2: in the writable round in which the bytes accepted for the head write
\* reach its size, exactly one on_send_complete(IO_SEND_OK) is delivered for it.
ClaimC2 ==
    [][(/\ op'.event = "writable"
        /\ pending_io_list # <<>>
        /\ Head(pending_io_list).on_send_complete # "NULL"
        /\ \E w \in 1..Len(calls') :
              /\ calls'[w].k = "lws_write"
              /\ calls'[w].n >= 0
              /\ Head(pending_io_list).accepted + calls'[w].n
                     = Head(pending_io_list).size)
       => SelectKind(calls', "on_send_complete")
              = <<SendComplete(Head(pending_io_list).callback_context, "OK")>>]_vars

\* C3: the bytes handed to lws_write in a round are the part of the submitted
\* buffer that was not accepted before: its bytes from accepted + 1 to size.
ClaimC3 ==
    [][(op'.event = "writable" /\ pending_io_list # <<>>)
       => \A w \in 1..Len(calls') :
             calls'[w].k = "lws_write"
             => calls'[w].b = SubSeq(Buffer(Head(pending_io_list).size),
                                     Head(pending_io_list).accepted + 1,
                                     Head(pending_io_list).size)]_vars

\* C4: when the padded-buffer allocation or lws_write fails for a write of
\* which a byte was accepted before, one on_send_complete(IO_SEND_ERROR) is
\* delivered, the state becomes IO_STATE_ERROR and on_io_error is raised.
ClaimC4 ==
    [][(/\ op'.event = "writable"
        /\ pending_io_list # <<>>
        /\ Head(pending_io_list).accepted > 0
        /\ \A w \in 1..Len(calls') : calls'[w].k = "lws_write" => calls'[w].n < 0)
       => /\ Head(pending_io_list).on_send_complete # "NULL"
             => SelectKind(calls', "on_send_complete")
                  = <<SendComplete(Head(pending_io_list).callback_context, "ERROR")>>
          /\ io_state' = "ERROR"
          /\ on_io_error # "NULL"
             => SelectKind(calls', "on_io_error") = <<ErrorCall(open_callback_context)>>]_vars

\* the on_send_complete(IO_SEND_CANCELLED) calls owed to the pending IOs of
\* list that have a callback, head first
CancelledInOrder(list) ==
    LET owed == SelectSeq(list, LAMBDA io : io.on_send_complete # "NULL")
    IN  [i \in 1..Len(owed) |-> SendComplete(owed[i].callback_context, "CANCELLED")]

\* C5: wsio_close in IO_STATE_OPEN returns 0 after it delivered
\* on_send_complete(IO_SEND_CANCELLED) for every queued write in queue order,
\* and leaves the list empty and the state IO_STATE_NOT_OPEN; a wsio_destroy
\* following it makes no callback.
TheoremC5 ==
    [][/\ (Called("wsio_close") /\ io_state = "OPEN")
          => /\ ret' = 0
             /\ SelectKind(calls', "on_send_complete") = CancelledInOrder(pending_io_list)
             /\ pending_io_list' = <<>>
             /\ io_state' = "NOT_OPEN"
       /\ (Called("wsio_destroy") /\ op.name = "wsio_close" /\ op.handle = "ws_io"
           /\ ret = 0)
          => Callbacks(calls') = <<>>]_vars

\* wsio_close returned after cancelling two queued writes
WitnessC5 ==
    /\ op.name = "wsio_close"
    /\ ret = 0
    /\ SelectKind(calls, "on_send_complete")
         = <<SendComplete(1, "CANCELLED"), SendComplete(2, "CANCELLED")>>
    /\ pending_io_list = <<>>

\* C6: wsio_close in IO_STATE_OPENING delivers on_io_open_complete
\* (IO_OPEN_CANCELLED) once, destroys the lws context, returns 0 and leaves
\* IO_STATE_NOT_OPEN; the wsio_open after it is not refused: it asks the engine
\* for a context and, when the engine gives a context and a connection,
\* returns 0 in IO_STATE_OPENING.
TheoremC6 ==
    [][/\ (Called("wsio_close") /\ io_state = "OPENING")
          => /\ ret' = 0
             /\ io_state' = "NOT_OPEN"
             /\ SelectKind(calls', "on_io_open_complete")
                  = (IF on_io_open_complete # "NULL"
                     THEN <<OpenComplete(open_callback_context, "CANCELLED")>>
                     ELSE <<>>)
             /\ SelectKind(calls', "lws_context_destroy") = <<LwsContextDestroy(ws_context)>>
             /\ ws_context \in sessions
             /\ sessions' = sessions \ {ws_context}
       /\ (Called("wsio_open") /\ op.name = "wsio_close" /\ op.handle = "ws_io"
           /\ ret = 0 /\ io_state = "NOT_OPEN")
          => /\ SelectKind(calls', "lws_create_context") # <<>>
             /\ (\A w \in 1..Len(calls') :
                    calls'[w].k \in {"lws_create_context", "lws_client_connect"}
                    => calls'[w].ctx # 0)
                => (ret' = 0 /\ io_state' = "OPENING")]_vars

\* wsio_close returned after cancelling the pending open
WitnessC6 ==
    /\ op.name = "wsio_close"
    /\ ret = 0
    /\ io_state = "NOT_OPEN"
    /\ SelectKind(calls, "on_io_open_complete") = <<OpenComplete(1, "CANCELLED")>>
    /\ sessions = {}

\* C7 as stated: in IO_STATE_ERROR every wsio_open, wsio_send and wsio_close
\* returns non-zero and leaves IO_STATE_ERROR.
ClaimC7 ==
    [][(io_state = "ERROR" /\ ~crashed'
        /\ (Called("wsio_open") \/ Called("wsio_send") \/ Called("wsio_close")))
       => (ret' # 0 /\ io_state' = "ERROR")]_vars

\* C7 amended: in IO_STATE_ERROR every wsio_open and wsio_send returns non-zero
\* and changes nothing, and wsio_dowork dispatches no event and changes
\* nothing; wsio_close is accepted: when it returns, it returns 0 and the state
\* is IO_STATE_NOT_OPEN.
TheoremC7 ==
    [][io_state = "ERROR"
       => /\ (Called("wsio_open") \/ Called("wsio_send"))
             => (ret' # 0 /\ calls' = <<>> /\ io_state' = "ERROR" /\ Untouched)
          /\ Called("wsio_dowork")
             => (op'.event = "none" /\ calls' = <<>> /\ Untouched)
          /\ (Called("wsio_close") /\ ~crashed')
             => (ret' = 0 /\ io_state' = "NOT_OPEN")]_vars

\* wsio_open was refused in IO_STATE_ERROR
WitnessC7 ==
    /\ io_state = "ERROR"
    /\ op.name = "wsio_open"
    /\ op.handle = "ws_io"
    /\ ret # 0

\* C8: wsio_send with a NULL handle, a NULL buffer or size 0, or in a state
\* other than IO_STATE_OPEN, returns non-zero, makes no call (no callback, no
\* writable request) and leaves the list and the state as they were.
TheoremC8 ==
    [][(/\ op'.name = "wsio_send"
        /\ \/ op'.handle = "NULL"
           \/ op'.buffer = "NULL"
           \/ op'.size = 0
           \/ io_state # "OPEN")
       => (ret' # 0 /\ calls' = <<>> /\ Untouched)]_vars

\* a wsio_send with good arguments was refused in IO_STATE_ERROR
WitnessC8 ==
    /\ op.name = "wsio_send"
    /\ op.handle = "ws_io"
    /\ op.buffer # "NULL"
    /\ op.size > 0
    /\ io_state = "ERROR"
    /\ ret # 0

\* C9: wsio_open in IO_STATE_OPENING or IO_STATE_OPEN returns non-zero, makes
\* no engine call and no callback, and leaves the state, the registered
\* callbacks, the context and the lws context as they were.
TheoremC9 ==
    [][(op'.name = "wsio_open" /\ io_state \in {"OPENING", "OPEN"})
       => (ret' # 0 /\ calls' = <<>> /\ Untouched)]_vars

\* a wsio_open passing other callbacks than the registered ones was refused
\* while the instance was open
WitnessC9 ==
    /\ op.name = "wsio_open"
    /\ op.handle = "ws_io"
    /\ ret # 0
    /\ io_state = "OPEN"
    /\ op.cb # on_io_open_complete
    /\ ws_context \in sessions

\* C10: wsio_close in IO_STATE_NOT_OPEN returns non-zero, makes no callback
\* and no engine call, and leaves the state as it was.
TheoremC10 ==
    [][(Called("wsio_close") /\ io_state = "NOT_OPEN")
       => (ret' # 0 /\ calls' = <<>> /\ Untouched)]_vars

\* a second wsio_close, after one that closed an open instance, was refused
WitnessC10 ==
    /\ op.name = "wsio_close"
    /\ op.handle = "ws_io"
    /\ ret # 0
    /\ io_state = "NOT_OPEN"
    /\ created > 0
    /\ on_io_open_complete # "NULL"

SessionHeld ==
    sessions = (IF io_state \in {"OPENING", "OPEN", "ERROR"} THEN {ws_context} ELSE {})

\* the contexts passed to lws_context_destroy among the calls c, in order
Destroyed(c) ==
    LET d == SelectKind(c, "lws_context_destroy")
    IN  [i \in 1..Len(d) |-> d[i].ctx]

TheoremC13 ==
    [][LET oc == SelectKind(calls', "on_io_open_complete")
           one(open_result) ==
               IF on_io_open_complete # "NULL"
               THEN <<OpenComplete(open_callback_context, open_result)>> ELSE <<>>
       IN  /\ (io_state # "OPENING" /\ io_state' = "OPENING")
              => (Called("wsio_open") /\ ret' = 0)
           /\ (io_state = "OPENING" /\ io_state' # "OPENING")
              => \/ op'.event = "established" /\ io_state' = "OPEN" /\ oc = one("OK")
                 \/ /\ op'.event = "connection_error"
                    /\ io_state' = "NOT_OPEN"
                    /\ oc = one("ERROR")
                 \/ /\ Called("wsio_close") \/ Called("wsio_destroy")
                    /\ io_state' = "NOT_OPEN"
                    /\ oc = one("CANCELLED")
           /\ (io_state = "OPENING"
               /\ \/ op'.event \in {"established", "connection_error"}
                  \/ Called("wsio_close")
                  \/ Called("wsio_destroy"))
              => io_state' # "OPENING"
           /\ (io_state # "OPENING" \/ io_state' = "OPENING") => oc = <<>>]_vars

\* the connection error event ended an open with on_io_open_complete(IO_OPEN_ERROR)
WitnessC13 ==
    /\ op.event = "connection_error"
    /\ io_state = "NOT_OPEN"
    /\ calls = <<OpenComplete(1, "ERROR"), LwsContextDestroy(ws_context)>>

\* C14: a wsio_close that returns 0 and was given on_io_close_complete calls
\* it exactly once, as the last thing it does: after the
\* on_send_complete(IO_SEND_CANCELLED) of every queued write and after
\* lws_context_destroy on the live context, leaving IO_STATE_NOT_OPEN and an
\* empty list when it returns; without the callback, or when wsio_close
\* returns non-zero, on_io_close_complete is not called.
TheoremC14 ==
    [][op'.name = "wsio_close"
       => LET cc == SelectKind(calls', "on_io_close_complete")
          IN  /\ (ret' # 0 \/ op'.cb = "NULL") => cc = <<>>
              /\ (ret' = 0 /\ op'.cb # "NULL")
                 => /\ Len(cc) = 1
                    /\ calls'[Len(calls')].k = "on_io_close_complete"
                    /\ SelectKind(calls', "on_send_complete")
                         = CancelledInOrder(pending_io_list)
                    /\ SelectKind(calls', "lws_context_destroy")
                         = <<LwsContextDestroy(ws_context)>>
                    /\ ws_context \in sessions
                    /\ sessions' = {}
                    /\ io_state' = "NOT_OPEN"
                    /\ pending_io_list' = <<>>]_vars

\* wsio_close cancelled a queued write, destroyed the context and then called
\* on_io_close_complete
WitnessC14 ==
    /\ op.name = "wsio_close"
    /\ ret = 0
    /\ calls = <<SendComplete(1, "CANCELLED"), LwsContextDestroy(ws_context),
                 CloseComplete(1)>>
    /\ io_state = "NOT_OPEN"

\* the wsio_send call of the step queued its buffer at the tail of the list
QueuedAtTail ==
    pending_io_list' = Append(pending_io_list,
                              PendingIO(op'.size, op'.cb, send_calls'))

\* the step is a wsio_send whose lws_callback_on_writable call failed
WritableRequestFailed ==
    /\ Called("wsio_send")
    /\ \E w \in 1..Len(calls') : calls'[w] = LwsOnWritable(-1)

\* C15 as stated: when the lws_callback_on_writable call of wsio_send fails,
\* wsio_send returns 0 and the write stays queued.
ClaimC15 ==
    [][WritableRequestFailed => (ret' = 0 /\ QueuedAtTail)]_vars

\* C15 amended: when the lws_callback_on_writable call of wsio_send fails,
\* wsio_send returns non-zero, and the write it queued stays at the tail of
\* the list all the same; the state stays IO_STATE_OPEN and the call adds no
\* outstanding notification.
TheoremC15 ==
    [][WritableRequestFailed
       => /\ ret' # 0
          /\ QueuedAtTail
          /\ io_state' = "OPEN"
          /\ writable_requested' = writable_requested]_vars

\* a wsio_send returned non-zero and left its write queued with no
\* notification outstanding
WitnessC15 ==
    /\ op.name = "wsio_send"
    /\ ret # 0
    /\ calls = <<LwsOnWritable(-1)>>
    /\ Len(pending_io_list) = 1
    /\ ~writable_requested

\* C16: when the padded-buffer allocation or lws_write fails in a writable
\* round for a head write of which no byte was accepted before, the write gets
\* one on_send_complete(IO_SEND_ERROR) (when it has a callback) and leaves the
\* list, the state stays IO_STATE_OPEN, on_io_error is not called, the other
\* writes stay queued in their order, and with writes left the round ends by
\* requesting the next writable event.
TheoremC16 ==
    [][(/\ op'.event = "writable"
        /\ pending_io_list # <<>>
        /\ Head(pending_io_list).accepted = 0
        /\ \A w \in 1..Len(calls') : calls'[w].k = "lws_write" => calls'[w].n < 0)
       => /\ SelectKind(calls', "on_send_complete")
               = (IF Head(pending_io_list).on_send_complete # "NULL"
                  THEN <<SendComplete(Head(pending_io_list).callback_context, "ERROR")>>
                  ELSE <<>>)
          /\ pending_io_list' = Tail(pending_io_list)
          /\ io_state' = "OPEN"
          /\ SelectKind(calls', "on_io_error") = <<>>
          /\ sessions' = sessions
          /\ Tail(pending_io_list) # <<>>
             => calls'[Len(calls')].k = "lws_callback_on_writable"]_vars

\* lws_write failed for the untouched first write; it got IO_SEND_ERROR and
\* the second write is now the head
WitnessC16 ==
    /\ op.event = "writable"
    /\ io_state = "OPEN"
    /\ \E w \in 1..Len(calls) : calls[w] = LwsWrite(1, Buffer(MaxSize), -1)
    /\ SelectKind(calls, "on_send_complete") = <<SendComplete(1, "ERROR")>>
    /\ Len(pending_io_list) = 1
    /\ pending_io_list[1].callback_context = 2

\* C17: the head write is the only one worked on.  A writable round in which
\* lws_write accepts less than the size handed to it makes no callback and
\* leaves the list with the same writes in the same order; in every step,
\* lws_write is handed bytes of the head write only, a writable round completes
\* no write but the head, a step that completes a later write (wsio_close,
\* wsio_destroy) has first completed the head and removed it, and while the
\* head write is in the list it stays the head.
TheoremC17 ==
    [][pending_io_list # <<>>
       => LET head == Head(pending_io_list)
              done == SelectKind(calls', "on_send_complete")
              queued(list) == [i \in 1..Len(list) |-> list[i].callback_context]
          IN  /\ (/\ op'.event = "writable"
                  /\ \E w \in 1..Len(calls') :
                        /\ calls'[w].k = "lws_write"
                        /\ calls'[w].n >= 0
                        /\ calls'[w].n < head.size)
                 => /\ Callbacks(calls') = <<>>
                    /\ queued(pending_io_list') = queued(pending_io_list)
              /\ \A w \in 1..Len(calls') :
                    calls'[w].k = "lws_write"
                    => calls'[w].ctx = head.callback_context
              /\ op'.event = "writable"
                 => \A w \in 1..Len(done) : done[w].ctx = head.callback_context
              /\ \A w \in 1..Len(done) :
                    done[w].ctx # head.callback_context
                    => /\ ~list_has(pending_io_list', head.callback_context)
                       /\ head.on_send_complete # "NULL"
                          => \E v \in 1..(w - 1) : done[v].ctx = head.callback_context
              /\ list_has(pending_io_list', head.callback_context)
                 => Head(pending_io_list').callback_context = head.callback_context]_vars

\* the first write was completed in a round after a partial one, while the
\* second write waited behind it
WitnessC17 ==
    /\ op.event = "writable"
    /\ calls # <<>>
    /\ calls[1] = LwsWrite(1, memmove_pending(Buffer(MaxSize), 1, MaxSize), MaxSize)
    /\ completions = <<1>>
    /\ Len(pending_io_list) = 1
    /\ pending_io_list[1].callback_context = 2
    /\ pending_io_list[1].accepted = 0

\* C18: when a wsio_send call that returned 0 or the handling of a writable
\* event ends in IO_STATE_OPEN with a write in the list, a writable
\* notification is outstanding with the engine.
ClaimC18 ==
    (/\ op.handle = "ws_io"
     /\ (op.name = "wsio_send" /\ ret = 0) \/ op.event = "writable"
     /\ io_state = "OPEN"
     /\ pending_io_list # <<>>)
    => writable_requested

\* C19: with a caller that keeps calling wsio_dowork in IO_STATE_OPEN and an
\* engine that delivers every requested writable event and accepts at least
\* one byte in every lws_write call, every queued write leaves the list in
\* the end (in SpecDrain a write leaves the list only through the
\* IO_SEND_OK branch).
ClaimC19 ==
    \A c \in 1..MaxSends :
        list_has(pending_io_list, c) ~> ~list_has(pending_io_list, c)

\* C20: the established event or the connection error event dispatched in
\* IO_STATE_OPEN calls on_io_error once (when one is registered) and nothing
\* else: no on_io_open_complete, no engine call, and the state, the list, the
\* registered callbacks and the live lws context stay as they were.
TheoremC20 ==
    [][(op'.event \in {"established", "connection_error"} /\ io_state = "OPEN")
       => /\ calls' = (IF on_io_error # "NULL"
                       THEN <<ErrorCall(open_callback_context)>> ELSE <<>>)
          /\ io_state' = "OPEN"
          /\ ws_context \in sessions'
          /\ Untouched]_vars

\* a connection error event in IO_STATE_OPEN, with a write queued, raised
\* on_io_error
WitnessC20 ==
    /\ op.event = "connection_error"
    /\ io_state = "OPEN"
    /\ calls = <<ErrorCall(1)>>
    /\ pending_io_list # <<>>
    /\ ws_context \in sessions

\* the wsio_open call of the step got NULL from lws_create_context or from
\* lws_client_connect
EngineRefused ==
    \E w \in 1..Len(calls') :
        /\ calls'[w].k \in {"lws_create_context", "lws_client_connect"}
        /\ calls'[w].ctx = 0

\* C21: a wsio_open in IO_STATE_NOT_OPEN for which lws_create_context or
\* lws_client_connect returns NULL returns non-zero, leaves IO_STATE_NOT_OPEN
\* and no live lws context (a context it created is destroyed in the call),
\* and calls no callback; the wsio_open after it is not refused: when the
\* engine gives it a context and a connection it returns 0 in
\* IO_STATE_OPENING.
TheoremC21 ==
    [][/\ (Called("wsio_open") /\ io_state = "NOT_OPEN" /\ EngineRefused)
          => /\ ret' # 0
             /\ io_state' = "NOT_OPEN"
             /\ sessions' = {}
             /\ Callbacks(calls') = <<>>
             /\ \A w \in 1..Len(calls') :
                   (calls'[w].k = "lws_create_context" /\ calls'[w].ctx # 0)
                   => Destroyed(calls') = <<calls'[w].ctx>>
       /\ (/\ Called("wsio_open")
           /\ op.name = "wsio_open" /\ op.handle = "ws_io" /\ ret # 0
           /\ io_state = "NOT_OPEN")
          => /\ SelectKind(calls', "lws_create_context") # <<>>
             /\ ~EngineRefused => (ret' = 0 /\ io_state' = "OPENING")]_vars

\* lws_client_connect failed: wsio_open destroyed the context it had created
\* and returned non-zero
WitnessC21 ==
    /\ op.name = "wsio_open"
    /\ ret # 0
    /\ calls = <<LwsCreateContext(ws_context), LwsClientConnect(0),
                 LwsContextDestroy(ws_context)>>
    /\ io_state = "NOT_OPEN"
    /\ sessions = {}

\* C22: wsio_dowork has the engine dispatch an event only in IO_STATE_OPEN
\* and IO_STATE_OPENING and on a non-NULL handle; in IO_STATE_NOT_OPEN or
\* IO_STATE_ERROR, or with a NULL handle, it dispatches nothing, makes no call
\* and leaves the instance and the engine as they were, so in IO_STATE_ERROR
\* an on_send_complete call can only come from wsio_close or wsio_destroy.
TheoremC22 ==
    [][/\ (/\ op'.name = "wsio_dowork"
           /\ op'.handle = "NULL" \/ io_state \in {"NOT_OPEN", "ERROR"})
          => (op'.event = "none" /\ calls' = <<>> /\ Untouched)
       /\ op'.event \notin {"", "none"}
          => (op'.handle = "ws_io" /\ io_state \in {"OPEN", "OPENING"})
       /\ (io_state = "ERROR" /\ SelectKind(calls', "on_send_complete") # <<>>)
          => (Called("wsio_close") \/ Called("wsio_destroy"))]_vars

\* wsio_dowork was called in IO_STATE_ERROR and did nothing
WitnessC22 ==
    /\ op.name = "wsio_dowork"
    /\ op.handle = "ws_io"
    /\ op.event = "none"
    /\ io_state = "ERROR"
    /\ calls = <<>>

\* C23: the list of pending IOs is empty whenever the state is
\* IO_STATE_NOT_OPEN or IO_STATE_OPENING, so the wsio_close that skips the
\* drain loop in IO_STATE_OPENING leaves no write behind.
TheoremC23 ==
    io_state \in {"NOT_OPEN", "OPENING"} => pending_io_list = <<>>

\* the instance is opening again after writes were queued on its first
\* connection
WitnessC23 ==
    /\ io_state = "OPENING"
    /\ created = 2
    /\ send_calls > 0
    /\ pending_io_list = <<>>

\* C24: a wsio_send that returns non-zero leaves no write of its own in the
\* list (the list is as it was before the call), and the call after a
\* wsio_send that returned non-zero because lws_callback_on_writable failed
\* delivers no on_send_complete for that wsio_send.
ClaimC24 ==
    [][/\ (op'.name = "wsio_send" /\ ret' # 0)
          => pending_io_list' = pending_io_list
       /\ (/\ op.name = "wsio_send"
           /\ ret # 0
           /\ calls = <<LwsOnWritable(-1)>>)
          => \A w \in 1..Len(calls') :
                calls'[w].k = "on_send_complete" => calls'[w].ctx # send_calls]_vars

\* C25: when the on_send_complete callback made by the writable handler calls
\* wsio_close (seen as the lws_context_destroy call inside the writable
\* round), no write gets two on_send_complete calls in that round, and the
\* pending IO is freed once, so the process does not die of a double free.
ClaimC25 ==
    [][(/\ op'.event = "writable"
        /\ \E w \in 1..Len(calls') : calls'[w].k = "lws_context_destroy")
       => /\ \A i \in 1..Len(calls') : \A j \in 1..Len(calls') :
                (/\ calls'[i].k = "on_send_complete"
                 /\ calls'[j].k = "on_send_complete"
                 /\ calls'[i].ctx = calls'[j].ctx)
                => i = j
          /\ ~crashed']_vars

\* C26: the connection error event in IO_STATE_OPENING, also when its
\* on_io_open_complete(IO_OPEN_ERROR) callback calls wsio_close, makes one
\* on_io_open_complete call, destroys the lws context once and does not end
\* the process.
ClaimC26 ==
    [][(op'.event = "connection_error" /\ io_state = "OPENING")
       => /\ Len(SelectKind(calls', "on_io_open_complete")) <= 1
          /\ Len(Destroyed(calls')) = 1
          /\ ~crashed']_vars

====
